---- MODULE Spec2Model ----
(***************************************************************************)
(* Verification orchestration (VerificationService, the Celery tasks and   *)
(* the /verify and /verification/cancel endpoints) and the data-correction *)
(* workflow (DataCorrectionService) of the company verification backend.   *)
(***************************************************************************)
EXTENDS Integers, Sequences, FiniteSets, TLC

(***************************************************************************)
(* Bounds of the model.                                                    *)
(***************************************************************************)
MaxRuns == 3
MaxJobs == 2

(***************************************************************************)
(* Identifiers.  Companies are the rows of the companies table; CompanyIds *)
(* also holds an id with no row.                                           *)
(***************************************************************************)
Companies == {"c1", "c2"}
CompanyIds == Companies \cup {"cX"}
JobIds == 1..MaxJobs
None == "None"

\* Optional[int] and Optional[bool] arguments: Nothing is Python's None
Nothing == << >>
Some(v) == <<v>>

(***************************************************************************)
(* RiskCalculator                                                          *)
(***************************************************************************)
DNS_WEIGHT == 25
REGISTRATION_CONSISTENCY_WEIGHT == 25
CONTACT_VALIDATION_WEIGHT == 20
DOMAIN_AUTHENTICITY_WEIGHT == 15
CROSS_SOURCE_VALIDATION_WEIGHT == 15

Min(a, b) == IF a < b THEN a ELSE b
Max(a, b) == IF a > b THEN a ELSE b

calculate_dns_risk(dns_verified, domain_age_days) ==
    IF ~dns_verified THEN 100
    ELSE IF domain_age_days = Nothing THEN 50
    ELSE IF domain_age_days[1] < 30 THEN 80
    ELSE IF domain_age_days[1] < 90 THEN 60
    ELSE IF domain_age_days[1] < 365 THEN 30
    ELSE 10

\* match_ratio >= 0.9 is compared on integers: matches*10 >= 9*total
calculate_registration_consistency_risk(registration_matches, total_sources) ==
    IF total_sources = 0 THEN 70
    ELSE IF registration_matches * 10 >= 9 * total_sources THEN 10
    ELSE IF registration_matches * 10 >= 7 * total_sources THEN 30
    ELSE IF registration_matches * 10 >= 5 * total_sources THEN 60
    ELSE 90

\* A variant that returns the sum of the two parts without clamping it.
calculate_contact_validation_risk_unclamped(email_valid, phone_valid, email_exists, phone_carrier_valid) ==
    LET e == IF ~email_valid THEN 40
             ELSE IF email_exists = Some(FALSE) THEN 30
             ELSE IF email_exists = Some(TRUE) THEN -10
             ELSE 0
        p == IF ~phone_valid THEN 40
             ELSE IF phone_carrier_valid = Some(FALSE) THEN 20
             ELSE IF phone_carrier_valid = Some(TRUE) THEN -10
             ELSE 0
    IN  e + p

calculate_contact_validation_risk(email_valid, phone_valid, email_exists, phone_carrier_valid) ==
    LET e == IF ~email_valid THEN 40
             ELSE IF email_exists = Some(FALSE) THEN 30
             ELSE IF email_exists = Some(TRUE) THEN -10
             ELSE 0
        p == IF ~phone_valid THEN 40
             ELSE IF phone_carrier_valid = Some(FALSE) THEN 20
             ELSE IF phone_carrier_valid = Some(TRUE) THEN -10
             ELSE 0
    IN  Min(100, Max(0, e + p))

calculate_domain_authenticity_risk(domain_matches_company, ssl_valid, suspicious_keywords) ==
    LET r1 == IF ~domain_matches_company THEN 50 ELSE 0
        r2 == IF ssl_valid = Some(FALSE) THEN r1 + 30
              ELSE IF ssl_valid = Some(TRUE) THEN Max(0, r1 - 15)
              ELSE r1
        r3 == r2 + Min(30, suspicious_keywords * 10)
    IN  Min(100, Max(0, r3))

\* The two scores are floats, given here in hundredths (0.8 is 80).  In
\* double arithmetic (1.0 - c) * 60 + (1.0 - r) * 40 is, for these pairs of
\* tenths, just below the integer the exact sum gives, and for every other
\* pair of tenths it has the integer part of the exact sum.
RoundedBelow ==
    {<<80, 50>>, <<80, 60>>, <<80, 80>>, <<80, 90>>, <<80, 100>>,
     <<90, 80>>, <<90, 90>>, <<90, 100>>, <<100, 80>>, <<100, 90>>}

\* int() truncates the double sum
calculate_cross_source_validation_risk(data_consistency_pct, source_reliability_pct) ==
    LET exact == ((100 - data_consistency_pct) * 60
                  + (100 - source_reliability_pct) * 40) \div 100
        total_risk == IF <<data_consistency_pct, source_reliability_pct>> \in RoundedBelow
                      THEN exact - 1
                      ELSE exact
    IN  Min(100, Max(0, total_risk))

\* A variant with a strict first threshold: 30 is already MEDIUM.
risk_category_of_strict(overall_score) ==
    IF overall_score < 30 THEN "LOW"
    ELSE IF overall_score <= 70 THEN "MEDIUM"
    ELSE "HIGH"

\* lines 219-224
risk_category_of(overall_score) ==
    IF overall_score <= 30 THEN "LOW"
    ELSE IF overall_score <= 70 THEN "MEDIUM"
    ELSE "HIGH"

calculate_overall_risk(in) ==
    LET dns_risk == calculate_dns_risk(in.dns_verified, in.domain_age_days)
        registration_risk == calculate_registration_consistency_risk(
                                 in.registration_matches, in.total_sources)
        contact_risk == calculate_contact_validation_risk(
                            in.email_valid, in.phone_valid,
                            in.email_exists, in.phone_carrier_valid)
        domain_risk == calculate_domain_authenticity_risk(
                           in.domain_matches_company, in.ssl_valid,
                           in.suspicious_keywords)
        cross_source_risk == calculate_cross_source_validation_risk(
                                 in.data_consistency_pct, in.source_reliability_pct)
        overall_score == (dns_risk * DNS_WEIGHT
                          + registration_risk * REGISTRATION_CONSISTENCY_WEIGHT
                          + contact_risk * CONTACT_VALIDATION_WEIGHT
                          + domain_risk * DOMAIN_AUTHENTICITY_WEIGHT
                          + cross_source_risk * CROSS_SOURCE_VALIDATION_WEIGHT) \div 100
    IN  [risk_score |-> Min(100, Max(0, overall_score)),
         risk_category |-> risk_category_of(overall_score),
         dns_risk |-> dns_risk,
         registration_risk |-> registration_risk,
         contact_risk |-> contact_risk,
         domain_risk |-> domain_risk,
         cross_source_risk |-> cross_source_risk,
         weights |-> [dns |-> DNS_WEIGHT,
                      registration |-> REGISTRATION_CONSISTENCY_WEIGHT,
                      contact |-> CONTACT_VALIDATION_WEIGHT,
                      domain |-> DOMAIN_AUTHENTICITY_WEIGHT,
                      cross_source |-> CROSS_SOURCE_VALIDATION_WEIGHT]]

(***************************************************************************)
(* DiscrepancyDetectionService.  A text is a sequence of tokens: a token   *)
(* is a word or one blank, and two words of a text are always separated by *)
(* at least one blank.  A normalized text is the sequence of its words,    *)
(* which stands for the words joined by single blanks.  A ratio of two     *)
(* integers (a confidence, a similarity) is the pair <<numerator,          *)
(* denominator>>.                                                          *)
(***************************************************************************)
Blank == " "

\* str.upper() on one token
UpperOf(t) ==
    CASE t \in {"acme", "Acme", "ACME"} -> "ACME"
      [] t \in {"other", "OTHER"} -> "OTHER"
      [] t \in {"inc", "Inc", "INC"} -> "INC"
      [] t \in {"co", "CO"} -> "CO"
      [] t \in {"ab1", "AB1"} -> "AB1"
      [] t \in {"ab", "AB"} -> "AB"
      [] t \in {"x", "X"} -> "X"
      [] t \in {"y", "Y"} -> "Y"
      [] OTHER -> t

Upper(text) == [i \in 1..Len(text) |-> UpperOf(text[i])]

\* str.split(): the words of a text
Split(text) == SelectSeq(text, LAMBDA t : t # Blank)

\* str.strip(): the text from its first word to its last
Strip(text) ==
    LET words == {i \in 1..Len(text) : text[i] # Blank}
    IN  IF words = {} THEN << >>
        ELSE SubSeq(text, CHOOSE i \in words : \A k \in words : i <= k,
                          CHOOSE i \in words : \A k \in words : k <= i)

suffixes == <<"INC", "LLC", "LTD", "CORP", "CORPORATION", "CO", "LP", "LLP">>

\* The loop over the suffixes, on the words of the stripped upper-case
\* name: normalized.endswith(" " + suffix) needs a word before the suffix
RECURSIVE remove_suffixes(_, _)
remove_suffixes(words, i) ==
    IF i > Len(suffixes) THEN words
    ELSE IF Len(words) >= 2 /\ words[Len(words)] = suffixes[i]
         THEN remove_suffixes(SubSeq(words, 1, Len(words) - 1), i + 1)
         ELSE remove_suffixes(words, i + 1)

_normalize_name(name) ==
    IF name = << >> THEN << >>
    ELSE remove_suffixes(Split(Strip(Upper(name))), 1)

_normalize_text(text) ==
    IF text = << >> THEN << >>
    ELSE Split(Strip(Upper(text)))

\* Jaccard similarity of the word sets of two normalized texts
_calculate_similarity(str1, str2) ==
    LET words1 == {str1[i] : i \in 1..Len(str1)}
        words2 == {str2[i] : i \in 1..Len(str2)}
    IN  IF str1 = << >> \/ str2 = << >> THEN <<0, 1>>
        ELSE <<Cardinality(words1 \cap words2), Cardinality(words1 \cup words2)>>

\* lines 65-72 and 153-160: the tier of matches / len(sources)
severity_of(matches, n) ==
    IF 10 * matches >= 9 * n THEN "none"
    ELSE IF 10 * matches >= 7 * n THEN "low"
    ELSE IF 10 * matches >= 5 * n THEN "medium"
    ELSE "high"

\* lines 216-223: a registration number must match in every source
registration_severity_of(matches, n) ==
    IF matches = n THEN "none"
    ELSE IF 10 * matches >= 7 * n THEN "low"
    ELSE IF 10 * matches >= 5 * n THEN "medium"
    ELSE "high"

\* What each of the three functions returns when sources is empty, and the
\* shape of every result
EmptyResult(n) ==
    [raised |-> None, sources_checked |-> n, matches |-> 0,
     discrepancies |-> << >>, confidence |-> <<0, 1>>, severity |-> "high"]

detect_name_discrepancies(legal_name, sources) ==
    IF sources = << >> THEN EmptyResult(0)
    ELSE LET normalized_primary == _normalize_name(legal_name)
             IsMatch(source) == normalized_primary = _normalize_name(source.name)
             missed == SelectSeq([i \in 1..Len(sources) |-> i],
                                 LAMBDA i : ~IsMatch(sources[i]))
             matches == Len(sources) - Len(missed)
         IN  [raised |-> None,
              sources_checked |-> Len(sources),
              matches |-> matches,
              discrepancies |->
                  [k \in 1..Len(missed) |->
                      [source |-> sources[missed[k]].source,
                       reported_name |-> sources[missed[k]].name,
                       similarity |-> _calculate_similarity(
                                          normalized_primary,
                                          _normalize_name(sources[missed[k]].name)),
                       type |-> "name_mismatch"]],
              confidence |-> <<matches, Len(sources)>>,
              severity |-> severity_of(matches, Len(sources))]

address_fields == <<"street", "city", "state", "country", "postal_code">>

FieldNames == {address_fields[i] : i \in 1..Len(address_fields)}

\* dict.get(field) or "": a missing key, None and "" all give the empty text
OrEmpty(value) == IF value = Nothing THEN << >> ELSE value[1]

\* Python truth of dict.get(field): the key is there with a non-empty string
Given(value) == value # Nothing /\ value[1] # << >>

\* lines 113-123: the number of sub-fields both sides give, with equal
\* normalized values
field_matches(primary_address, source_address) ==
    Cardinality({f \in FieldNames :
        /\ _normalize_text(OrEmpty(primary_address[f])) # << >>
        /\ _normalize_text(OrEmpty(source_address[f])) # << >>
        /\ _normalize_text(OrEmpty(primary_address[f]))
               = _normalize_text(OrEmpty(source_address[f]))})

\* lines 124-134: the sub-fields both sides give whose similarity is < 0.8
field_discrepancies(primary_address, source_address) ==
    LET differs(f) ==
            LET primary_value == _normalize_text(OrEmpty(primary_address[f]))
                source_value == _normalize_text(OrEmpty(source_address[f]))
                similarity == _calculate_similarity(primary_value, source_value)
            IN  /\ primary_value # << >>
                /\ source_value # << >>
                /\ primary_value # source_value
                /\ 5 * similarity[1] < 4 * similarity[2]
    IN  SelectSeq(address_fields, differs)

\* line 136: len([f for f in address_fields if primary_address.get(f)])
address_denominator(primary_address, source_address) ==
    Cardinality({f \in FieldNames : Given(primary_address[f])})

\* line 138 for one source: match_ratio >= 0.8
address_source_matches(primary_address, source_address) ==
    5 * field_matches(primary_address, source_address)
        >= 4 * address_denominator(primary_address, source_address)

detect_address_discrepancies(primary_address, sources) ==
    IF sources = << >> THEN EmptyResult(0)
    ELSE IF address_denominator(primary_address, sources[1].address) = 0
         THEN [EmptyResult(0) EXCEPT !.raised = "ZeroDivisionError",
                                     !.severity = None]
    ELSE LET IsMatch(source) == address_source_matches(primary_address, source.address)
             missed == SelectSeq([i \in 1..Len(sources) |-> i],
                                 LAMBDA i : ~IsMatch(sources[i]))
             matches == Len(sources) - Len(missed)
         IN  [raised |-> None,
              sources_checked |-> Len(sources),
              matches |-> matches,
              discrepancies |->
                  [k \in 1..Len(missed) |->
                      [source |-> sources[missed[k]].source,
                       field_discrepancies |->
                           field_discrepancies(primary_address,
                                               sources[missed[k]].address),
                       match_ratio |->
                           <<field_matches(primary_address,
                                           sources[missed[k]].address),
                             address_denominator(primary_address,
                                                 sources[missed[k]].address)>>,
                       type |-> "address_mismatch"]],
              confidence |-> <<matches, Len(sources)>>,
              severity |-> severity_of(matches, Len(sources))]

\* registration_number.upper().strip(): inner blanks stay
normalize_registration(registration_number) == Strip(Upper(registration_number))

detect_registration_discrepancies(registration_number, sources) ==
    IF sources = << >> THEN EmptyResult(0)
    ELSE LET normalized_primary == normalize_registration(registration_number)
             IsMatch(source) ==
                 normalized_primary = normalize_registration(source.registration_number)
             missed == SelectSeq([i \in 1..Len(sources) |-> i],
                                 LAMBDA i : ~IsMatch(sources[i]))
             matches == Len(sources) - Len(missed)
         IN  [raised |-> None,
              sources_checked |-> Len(sources),
              matches |-> matches,
              discrepancies |->
                  [k \in 1..Len(missed) |->
                      [source |-> sources[missed[k]].source,
                       reported_registration |->
                           normalize_registration(sources[missed[k]].registration_number),
                       type |-> "registration_mismatch"]],
              confidence |-> <<matches, Len(sources)>>,
              severity |-> registration_severity_of(matches, Len(sources))]

(***************************************************************************)
(* State.                                                                  *)
(*  company:     the companies table (attributes of each existing company) *)
(*  datapoints:  the company_data table in creation order; a DataPoint's   *)
(*               id is its position                                        *)
(*  runs:        the verification_results table in creation order          *)
(*               (created_at); a run's id is its position                  *)
(*  jobs:        the verification jobs: a call of verify_company (kind     *)
(*               "sync") or a verify_company_task on the queue ("task");   *)
(*               ai is what the enrichment step of its body did, exc the   *)
(*               exception the body raised                                 *)
(*  corrections: the data_corrections table in creation order              *)
(*  lastOp:      the last call of a DataCorrectionService method, of the   *)
(*               cancel endpoint or of get_verification_result: its        *)
(*               arguments, what it returned, and for the last two the     *)
(*               number of runs in the table when it was made (seen)       *)
(*  redis_client: whether the DataCollectionService was built with a Redis *)
(*               client (FALSE is the constructor's default, None)         *)
(*  cache:       the Redis keys written by the service: a set of entries   *)
(*               [key, value, expires], at most one per key                *)
(*  now:         the clock, in seconds                                     *)
(*  calls:       the number of collect calls made so far                   *)
(*  reply:       the last collect call: its arguments, the clock and       *)
(*               whether its key was in the cache when it was made, what   *)
(*               it returned, the requests it issued (log: whether each    *)
(*               was answered) and the waits it slept                      *)
(*  risk_in:     the arguments of a call of calculate_overall_risk         *)
(*  risk_out:    what the call returned, Nothing before it returns         *)
(*  disc_in:     the arguments of a call of one of the three discrepancy   *)
(*               detection functions                                       *)
(*  disc_out:    what the call returned, Nothing before it returns         *)
(*  sessions:    the database session of each concurrent request to       *)
(*               approve or reject a correction: what it has read and not  *)
(*               yet committed                                             *)
(***************************************************************************)
VARIABLES company, datapoints, runs, jobs, corrections, lastOp, redis_client, cache, now, calls, reply, risk_in, risk_out, disc_in, disc_out, sessions

gateway == <<redis_client, cache, now, calls, reply>>

calculator == <<risk_in, risk_out>>

detector == <<disc_in, disc_out>>

vars == <<company, datapoints, runs, jobs, corrections, lastOp, gateway, calculator, detector, sessions>>

NoReply == [op |-> "none"]

NoCall == [fn |-> "none"]

SessionIds == {"s1", "s2"}

IdleSession ==
    [op |-> "none", id |-> 0, user |-> None, reason |-> None,
     correction |-> None, company |-> None, datapoints |-> None]

\* calculate_overall_risk(dns_verified=False): every other argument at its
\* default
DefaultRiskInput ==
    [dns_verified |-> FALSE, domain_age_days |-> Nothing,
     registration_matches |-> 0, total_sources |-> 0,
     email_valid |-> FALSE, phone_valid |-> FALSE,
     email_exists |-> Nothing, phone_carrier_valid |-> Nothing,
     domain_matches_company |-> FALSE, ssl_valid |-> Nothing,
     suspicious_keywords |-> 0,
     data_consistency_pct |-> 0, source_reliability_pct |-> 0]

CompanyFields == {"legal_name", "registration_number", "jurisdiction", "domain"}

IdleJob == [kind |-> "none", pc |-> "idle", company |-> None, tr |-> 0,
            vr |-> 0, ai |-> None, exc |-> None, retries |-> 0, result |-> None]

NoOp == [op |-> "none", company |-> None, id |-> 0, result |-> None,
         reason |-> None, seen |-> 0]

\* The companies table the model starts from
SeedCompanies ==
    [c \in Companies |->
        IF c = "c1"
        THEN [legal_name |-> "v0", registration_number |-> None,
              jurisdiction |-> None, domain |-> "v0"]
        ELSE [legal_name |-> "v0", registration_number |-> "v0",
              jurisdiction |-> None, domain |-> None]]

Init ==
    /\ company = SeedCompanies
    /\ datapoints = << >>
    /\ runs = << >>
    /\ jobs = [j \in JobIds |-> IdleJob]
    /\ corrections = << >>
    /\ lastOp = NoOp
    /\ redis_client = FALSE
    /\ cache = {}
    /\ now = 0
    /\ calls = 0
    /\ reply = NoReply
    /\ risk_in = DefaultRiskInput
    /\ risk_out = Nothing
    /\ disc_in = NoCall
    /\ disc_out = Nothing
    /\ sessions = [s \in SessionIds |-> IdleSession]

(***************************************************************************)
(* VerificationService                                                     *)
(***************************************************************************)
Truthy(v) == v # None /\ v # ""

\* VerificationResult(...) as verify_company and the /verify endpoint build it
NewRun(company_id) ==
    [company_id |-> company_id, risk_score |-> 0, risk_category |-> "LOW",
     verification_status |-> "IN_PROGRESS", completed |-> FALSE]

RunsOf(rs, company_id) == {i \in DOMAIN rs : rs[i].company_id = company_id}

InProgressRuns(rs, company_id) ==
    {i \in RunsOf(rs, company_id) : rs[i].verification_status = "IN_PROGRESS"}

\* A variant that orders by created_at ascending: the oldest run.
LatestRun_ascending(rs, company_id) ==
    IF RunsOf(rs, company_id) = {} THEN 0
    ELSE CHOOSE i \in RunsOf(rs, company_id) :
             \A k \in RunsOf(rs, company_id) : i <= k

\* .order_by(created_at.desc()).first(): 0 stands for no row
LatestRun(rs, company_id) ==
    IF RunsOf(rs, company_id) = {} THEN 0
    ELSE CHOOSE i \in RunsOf(rs, company_id) :
             \A k \in RunsOf(rs, company_id) : k <= i

MarkFailed(rs, i) ==
    [rs EXCEPT ![i].verification_status = "FAILED", ![i].completed = TRUE]

_store_company_data(dps, company_id, field_name, field_value, source, verified) ==
    Append(dps, [company_id |-> company_id, field_name |-> field_name,
                 field_value |-> field_value, source |-> source,
                 verified |-> verified])

\* What the DNS and registration services observe during one execution.
Observations ==
    { [dns_verified |-> FALSE, domain_age_days |-> Nothing, ssl_valid |-> Nothing,
       domain_matches |-> FALSE, registration_matches |-> 0, total_sources |-> 0,
       reg_verified |-> FALSE],
      [dns_verified |-> TRUE, domain_age_days |-> Some(400), ssl_valid |-> Some(TRUE),
       domain_matches |-> TRUE, registration_matches |-> 1, total_sources |-> 1,
       reg_verified |-> TRUE] }

\* The observation of a domain that does not resolve
UnverifiedObservation == CHOOSE obs \in Observations : ~obs.dns_verified

\* Step 1 of verify_company: the DataPoint for the domain
StoreDns(dps, c, obs) ==
    IF Truthy(company[c].domain)
    THEN _store_company_data(dps, c, "domain", company[c].domain,
                             "dns_lookup", obs.dns_verified)
    ELSE dps

\* Step 3 of verify_company: the DataPoint for the registration number
StoreRegistration(dps, c, obs) ==
    IF Truthy(company[c].registration_number)
    THEN _store_company_data(dps, c, "registration_number",
                             company[c].registration_number,
                             "format_validation", obs.reg_verified)
    ELSE dps

\* Step 4 of verify_company
RiskOf(c, obs) ==
    calculate_overall_risk(
        [dns_verified |-> obs.dns_verified,
         domain_age_days |-> IF Truthy(company[c].domain) THEN obs.domain_age_days ELSE Nothing,
         registration_matches |-> obs.registration_matches,
         total_sources |-> obs.total_sources,
         email_valid |-> FALSE, phone_valid |-> FALSE,
         email_exists |-> Nothing, phone_carrier_valid |-> Nothing,
         domain_matches_company |-> IF Truthy(company[c].domain) THEN obs.domain_matches ELSE FALSE,
         ssl_valid |-> IF Truthy(company[c].domain) THEN obs.ssl_valid ELSE Nothing,
         suspicious_keywords |-> 0,
         data_consistency_pct |-> 80,
         source_reliability_pct |-> 70])

\* verify_company up to the commit of its new run (lines 43-56), called
\* directly or by POST /{company_id}/verify in sync mode.
VerifyCompany(j, c) ==
    /\ jobs[j].pc = "idle"
    /\ IF c \notin Companies
       THEN /\ jobs' = [jobs EXCEPT ![j] = [IdleJob EXCEPT !.kind = "sync",
                           !.pc = "done", !.company = c, !.result = "not_found"]]
            /\ UNCHANGED runs
       ELSE /\ Len(runs) < MaxRuns
            /\ runs' = Append(runs, NewRun(c))
            /\ jobs' = [jobs EXCEPT ![j] = [IdleJob EXCEPT !.kind = "sync",
                           !.pc = "body", !.company = c, !.vr = Len(runs) + 1]]
    /\ UNCHANGED <<company, datapoints, corrections, lastOp, gateway, calculator, detector, sessions>>

\* POST /{company_id}/verify with async_mode: queue the task, then create
\* the endpoint's own run record.
VerifyAsync(j, c) ==
    /\ jobs[j].pc = "idle"
    /\ c \in Companies
    /\ Len(runs) < MaxRuns
    /\ jobs' = [jobs EXCEPT ![j] = [IdleJob EXCEPT !.kind = "task",
                   !.pc = "queued", !.company = c]]
    /\ runs' = Append(runs, NewRun(c))
    /\ UNCHANGED <<company, datapoints, corrections, lastOp, gateway, calculator, detector, sessions>>

\* TaskQueueService.start_verification on its own (the re-run endpoint):
\* it queues verify_company_task for whatever id it is given.
StartVerification(j, c) ==
    /\ jobs[j].pc = "idle"
    /\ jobs' = [jobs EXCEPT ![j] = [IdleJob EXCEPT !.kind = "task",
                   !.pc = "queued", !.company = c]]
    /\ UNCHANGED <<company, datapoints, runs, corrections, lastOp, gateway, calculator, detector, sessions>>

\* verify_company_task lines 57-76.  The run the task builds itself has no
\* risk_category, a NOT NULL column without default (and, for an id with no
\* company, a company_id that violates the foreign key): its commit raises
\* IntegrityError and the row is not inserted.
TaskStart(j) ==
    /\ jobs[j].pc = "queued"
    /\ LET c == jobs[j].company IN
       IF InProgressRuns(runs, c) # {}
       THEN \E r \in InProgressRuns(runs, c) :
                jobs' = [jobs EXCEPT ![j].pc = "verify", ![j].tr = r]
       ELSE jobs' = [jobs EXCEPT ![j].pc = "handler", ![j].exc = "IntegrityError"]
    /\ UNCHANGED <<company, datapoints, runs, corrections, lastOp, gateway, calculator, detector, sessions>>

\* verify_company lines 43-56 as the body of the task.
TaskVerify(j) ==
    /\ jobs[j].pc = "verify"
    /\ LET c == jobs[j].company IN
       IF c \notin Companies
       THEN /\ jobs' = [jobs EXCEPT ![j].pc = "handler", ![j].exc = "not_found"]
            /\ UNCHANGED runs
       ELSE /\ Len(runs) < MaxRuns
            /\ runs' = Append(runs, NewRun(c))
            /\ jobs' = [jobs EXCEPT ![j].pc = "body", ![j].vr = Len(runs) + 1]
    /\ UNCHANGED <<company, datapoints, corrections, lastOp, gateway, calculator, detector, sessions>>

\* Where a job goes when verify_company returns or raises.
AfterBody(job, exc) ==
    IF exc = None
    THEN [job EXCEPT !.pc = "done", !.result = "ok"]
    ELSE IF job.kind = "task"
    THEN [job EXCEPT !.pc = "handler", !.exc = exc]
    ELSE [job EXCEPT !.pc = "done", !.exc = exc, !.result = "raised"]

\* The AI-assisted enrichment step, lines 76-91: the orchestrator is not
\* available; it answers without success; it answers with success; or the
\* import, the constructor, is_available or collect_company_data raises.
Enrichment == {"unavailable", "unsuccessful", "success", "raised"}

\* The outcomes on which lines 89 and 91 are not executed
EnrichmentQuiet == {"unavailable", "unsuccessful"}

\* verify_company lines 58-154: every step succeeds and the enrichment step
\* logs nothing.
BodyCompletes(j, obs, ai) ==
    /\ jobs[j].pc = "body"
    /\ ai \in EnrichmentQuiet
    /\ LET c == jobs[j].company
           risk_result == RiskOf(c, obs)
       IN  /\ datapoints' = StoreRegistration(StoreDns(datapoints, c, obs), c, obs)
           /\ runs' = [runs EXCEPT ![jobs[j].vr] =
                          [@ EXCEPT !.risk_score = risk_result.risk_score,
                                    !.risk_category = risk_result.risk_category,
                                    !.verification_status = "COMPLETED",
                                    !.completed = TRUE]]
           /\ jobs' = [jobs EXCEPT ![j] = AfterBody([@ EXCEPT !.ai = ai], None)]
    /\ UNCHANGED <<company, corrections, lastOp, gateway, calculator, detector, sessions>>

\* verify_company lines 76-91 and 156-165: the enrichment step reaches
\* logger.info (line 89) or its except clause (line 91).  The module defines
\* no name logger, so either line raises NameError; raised inside the except
\* clause it leaves the inner try and is handled by the outer except clause,
\* which marks the run FAILED unless that commit fails too.
EnrichmentLogs(j, obs, ai, commit_ok) ==
    /\ jobs[j].pc = "body"
    /\ ai \in Enrichment \ EnrichmentQuiet
    /\ LET c == jobs[j].company IN
       /\ datapoints' = StoreDns(datapoints, c, obs)
       /\ runs' = IF commit_ok THEN MarkFailed(runs, jobs[j].vr) ELSE runs
       /\ jobs' = [jobs EXCEPT ![j] = AfterBody([@ EXCEPT !.ai = ai], "NameError")]
    /\ UNCHANGED <<company, corrections, lastOp, gateway, calculator, detector, sessions>>

FailurePoints == {"dns", "registration", "risk"}
Exceptions == {"error", "connection"}

\* verify_company lines 58-165: a step raises at failure point `at`; the
\* except clause marks the run FAILED unless that commit fails too, and then
\* line 163 raises NameError in place of the exception.  A step after the
\* enrichment is reached when the enrichment logged nothing.
BodyRaises(j, obs, at, ai, exc, commit_ok) ==
    /\ jobs[j].pc = "body"
    /\ ai \in EnrichmentQuiet
    /\ LET c == jobs[j].company IN
       /\ datapoints' = CASE at = "dns" -> datapoints
                          [] at = "registration" -> StoreDns(datapoints, c, obs)
                          [] at = "risk" -> StoreRegistration(StoreDns(datapoints, c, obs), c, obs)
       /\ runs' = IF commit_ok THEN MarkFailed(runs, jobs[j].vr) ELSE runs
       /\ jobs' = [jobs EXCEPT ![j] =
                      AfterBody([@ EXCEPT !.ai = IF at = "dns" THEN None ELSE ai],
                                IF commit_ok THEN exc ELSE "NameError")]
    /\ UNCHANGED <<company, corrections, lastOp, gateway, calculator, detector, sessions>>

max_retries == 3

\* verify_company_task lines 116-134: the failure handler.
TaskHandler(j, commit_ok) ==
    /\ jobs[j].pc = "handler"
    /\ LET c == jobs[j].company
           verification_result == LatestRun(runs, c)
       IN  /\ runs' = IF verification_result # 0 /\ commit_ok
                      THEN MarkFailed(runs, verification_result)
                      ELSE runs
           /\ jobs' = IF jobs[j].exc = "connection" /\ jobs[j].retries < max_retries
                      THEN [jobs EXCEPT ![j] = [@ EXCEPT !.pc = "queued", !.tr = 0,
                               !.vr = 0, !.ai = None, !.exc = None,
                               !.retries = @ + 1]]
                      ELSE [jobs EXCEPT ![j] = [@ EXCEPT !.pc = "done", !.result = "raised"]]
    /\ UNCHANGED <<company, datapoints, corrections, lastOp, gateway, calculator, detector, sessions>>

\* A variant of the query that looks for any run not yet FAILED.
CancelCandidates_not_failed(rs, c) ==
    {i \in RunsOf(rs, c) : rs[i].verification_status # "FAILED"}

\* The query of the cancel endpoint (lines 456-459) and of
\* cancel_verification_task (lines 204-207): .first() takes one of these
CancelCandidates(rs, c) == InProgressRuns(rs, c)

\* POST /{company_id}/verification/cancel and cancel_verification_task, when
\* there is a run to cancel.
CancelVerification(c) ==
    /\ c \in Companies
    /\ CancelCandidates(runs, c) # {}
    /\ \E r \in CancelCandidates(runs, c) : runs' = MarkFailed(runs, r)
    /\ UNCHANGED <<company, datapoints, jobs, corrections, lastOp, gateway, calculator, detector, sessions>>

NextV ==
    \/ \E j \in JobIds, c \in CompanyIds : VerifyCompany(j, c)
    \/ \E j \in JobIds, c \in Companies : VerifyAsync(j, c)
    \/ \E j \in JobIds, c \in CompanyIds : StartVerification(j, c)
    \/ \E j \in JobIds : TaskStart(j)
    \/ \E j \in JobIds : TaskVerify(j)
    \/ \E j \in JobIds, obs \in Observations, ai \in Enrichment :
            BodyCompletes(j, obs, ai)
    \/ \E j \in JobIds, obs \in Observations, ai \in Enrichment, ok \in BOOLEAN :
            EnrichmentLogs(j, obs, ai, ok)
    \/ \E j \in JobIds, obs \in Observations, at \in FailurePoints,
          ai \in Enrichment, exc \in Exceptions, ok \in BOOLEAN :
            BodyRaises(j, obs, at, ai, exc, ok)
    \/ \E j \in JobIds, ok \in BOOLEAN : TaskHandler(j, ok)
    \/ \E c \in Companies : CancelVerification(c)

SpecV == Init /\ [][NextV]_vars

(***************************************************************************)
(* The calls that answer the caller: the cancel endpoint with its response *)
(* and get_verification_result, interleaved with verification jobs.        *)
(***************************************************************************)
\* POST /{company_id}/verification/cancel, lines 432-471: 404 for an id with
\* no company; otherwise one IN_PROGRESS run, if there is any, is marked
\* FAILED, and the response is success either way.
CancelVerificationCall(c) ==
    /\ IF c \notin Companies
       THEN /\ lastOp' = [NoOp EXCEPT !.op = "cancel", !.company = c,
                                        !.result = "not_found",
                                        !.seen = Len(runs)]
            /\ UNCHANGED runs
       ELSE IF CancelCandidates(runs, c) = {}
       THEN /\ lastOp' = [NoOp EXCEPT !.op = "cancel", !.company = c,
                                        !.result = "success",
                                        !.seen = Len(runs)]
            /\ UNCHANGED runs
       ELSE \E r \in CancelCandidates(runs, c) :
            /\ runs' = MarkFailed(runs, r)
            /\ lastOp' = [NoOp EXCEPT !.op = "cancel", !.company = c, !.id = r,
                                        !.result = "success",
                                        !.seen = Len(runs)]
    /\ UNCHANGED <<company, datapoints, jobs, corrections, gateway, calculator, detector, sessions>>

\* VerificationService.get_verification_result(company_id), lines 195-199
GetVerificationResult(c) ==
    /\ lastOp' = [NoOp EXCEPT !.op = "get", !.company = c,
                               !.id = LatestRun(runs, c),
                               !.result = "returned",
                               !.seen = Len(runs)]
    /\ UNCHANGED <<company, datapoints, runs, jobs, corrections, gateway, calculator, detector, sessions>>

\* The jobs run on one observation, with the enrichment unavailable or
\* raising: what the runs hold beyond their status does not matter here.
NextQ ==
    \/ \E j \in JobIds, c \in Companies : VerifyCompany(j, c)
    \/ \E j \in JobIds : BodyCompletes(j, UnverifiedObservation, "unavailable")
    \/ \E j \in JobIds, ok \in BOOLEAN :
            EnrichmentLogs(j, UnverifiedObservation, "raised", ok)
    \/ \E c \in CompanyIds : CancelVerificationCall(c)
    \/ \E c \in CompanyIds : GetVerificationResult(c)

SpecQ == Init /\ [][NextQ]_vars

(***************************************************************************)
(* Strings.  A version is a string such as "1.0", kept as the sequence of   *)
(* its characters so that str.split, int() and the f-string are computed.  *)
(***************************************************************************)
DigitChars == <<"0", "1", "2", "3", "4", "5", "6", "7", "8", "9">>

IsDigit(ch) == \E d \in 1..10 : DigitChars[d] = ch

DigitValue(ch) == (CHOOSE d \in 1..10 : DigitChars[d] = ch) - 1

\* str(n) for n >= 0
RECURSIVE IntToStr(_)
IntToStr(n) ==
    IF n < 10 THEN <<DigitChars[n + 1]>>
    ELSE IntToStr(n \div 10) \o <<DigitChars[(n % 10) + 1]>>

\* int(s): the value, or ValueError when s is not a run of digits
ValueError == -1

RECURSIVE DigitsValue(_)
DigitsValue(s) ==
    IF Len(s) = 0 THEN 0
    ELSE DigitsValue(SubSeq(s, 1, Len(s) - 1)) * 10 + DigitValue(s[Len(s)])

ParseInt(s) ==
    IF Len(s) > 0 /\ \A k \in 1..Len(s) : IsDigit(s[k])
    THEN DigitsValue(s)
    ELSE ValueError

\* s.split('.')
RECURSIVE SplitDot(_)
SplitDot(s) ==
    IF \A k \in 1..Len(s) : s[k] # "."
    THEN <<s>>
    ELSE LET k == CHOOSE m \in 1..Len(s) :
                      s[m] = "." /\ \A n \in 1..(m - 1) : s[n] # "."
         IN  <<SubSeq(s, 1, k - 1)>> \o SplitDot(SubSeq(s, k + 1, Len(s)))

FormatVersion(major, minor) == IntToStr(major) \o <<".">> \o IntToStr(minor)

FirstVersion == FormatVersion(1, 0)

\* create_correction lines 46-55: the version after the latest approved one
next_version(version) ==
    LET version_parts == SplitDot(version)
        major == ParseInt(version_parts[1])
        minor == IF Len(version_parts) > 1 THEN ParseInt(version_parts[2]) ELSE 0
    IN  IF major = ValueError \/ minor = ValueError
        THEN FirstVersion
        ELSE FormatVersion(major, minor + 1)

(***************************************************************************)
(* DataCorrectionService                                                   *)
(***************************************************************************)
MaxCorrections == 2

Users == {"u1"}
Values == {"v1", "v2"}
Reasons == {None, "why"}

\* The JSON metadata column: null (NoMeta), or a dict with the caller's
\* entries (base) and the rejection_reason entry, if any.
NoMeta == [present |-> FALSE, base |-> None, rejection_reason |-> None]
MetaDict(base, reason) == [present |-> TRUE, base |-> base, rejection_reason |-> reason]

\* The live attribute named by field_type, None when there is none
\* (create_correction endpoint lines 78-86, approve_correction lines 104-112)
CurrentValue(co, company_id, field_type) ==
    IF field_type \in CompanyFields THEN co[company_id][field_type] ELSE None

ApprovedFor(cs, company_id, field_name) ==
    {i \in DOMAIN cs : /\ cs[i].company_id = company_id
                       /\ cs[i].field_name = field_name
                       /\ cs[i].status = "APPROVED"}

\* A variant that forgets the status filter: the correction of the field
\* created last, whatever its status.
get_latest_correction_any_status(cs, company_id, field_name) ==
    LET same == {i \in DOMAIN cs : /\ cs[i].company_id = company_id
                                   /\ cs[i].field_name = field_name}
    IN  IF same = {} THEN 0
        ELSE CHOOSE i \in same : \A k \in same : k <= i

\* get_latest_correction, and the query of create_correction lines 37-43:
\* the APPROVED correction of the field created last; 0 stands for no row
get_latest_correction(cs, company_id, field_name) ==
    IF ApprovedFor(cs, company_id, field_name) = {} THEN 0
    ELSE CHOOSE i \in ApprovedFor(cs, company_id, field_name) :
             \A k \in ApprovedFor(cs, company_id, field_name) : k <= i

\* DataCorrectionService.create_correction: the record it adds
create_correction(cs, company_id, field_name, field_type, old_value, new_value, corrected_by, company_data_id, metadata) ==
    LET latest_correction == get_latest_correction(cs, company_id, field_name)
        new_version == IF latest_correction # 0
                       THEN next_version(cs[latest_correction].version)
                       ELSE FirstVersion
    IN  [company_id |-> company_id,
         company_data_id |-> company_data_id,
         field_name |-> field_name,
         field_type |-> field_type,
         old_value |-> old_value,
         new_value |-> new_value,
         corrected_by |-> corrected_by,
         status |-> "PENDING",
         version |-> new_version,
         previous_correction_id |-> latest_correction,
         approved_by |-> None,
         approved_at |-> FALSE,
         metadata |-> IF metadata = None THEN NoMeta ELSE MetaDict(metadata, None)]

\* A variant without the rollback: a failed commit leaves the staged rows.
Commit_without_rollback(commit_ok, before, staged) == staged

\* commit / rollback of the session: the tables after the try block
Commit(commit_ok, before, staged) == IF commit_ok THEN staged ELSE before

\* POST /company/{company_id}/corrections: resolves old_value from the live
\* company, refuses a value equal to it, then calls create_correction.
CreateCorrection(rq, corrected_by, commit_ok) ==
    /\ Len(corrections) < MaxCorrections
    /\ LET old_value == CurrentValue(company, rq.company_id, rq.field_type)
           correction == create_correction(corrections, rq.company_id,
                             rq.field_name, rq.field_type, old_value,
                             rq.new_value, corrected_by,
                             rq.company_data_id, rq.metadata)
       IN  IF old_value = rq.new_value
           THEN /\ lastOp' = [NoOp EXCEPT !.op = "create",
                                            !.company = rq.company_id,
                                            !.result = "error"]
                /\ UNCHANGED corrections
           ELSE /\ corrections' = Commit(commit_ok, corrections,
                                         Append(corrections, correction))
                /\ lastOp' = [NoOp EXCEPT
                                 !.op = "create",
                                 !.company = rq.company_id,
                                 !.id = IF commit_ok THEN Len(corrections) + 1 ELSE 0,
                                 !.result = IF commit_ok THEN "ok" ELSE "error"]
    /\ UNCHANGED <<company, datapoints, runs, jobs, gateway, calculator, detector, sessions>>

\* approve_correction lines 103-136: the tables as staged in the session
ApproveCompany(co, correction) ==
    IF correction.field_type \in CompanyFields
    THEN [co EXCEPT ![correction.company_id][correction.field_type] =
                        correction.new_value]
    ELSE co

ApproveData(dps, correction) ==
    IF correction.company_data_id # 0 /\ correction.company_data_id \in DOMAIN dps
    THEN [dps EXCEPT ![correction.company_data_id].field_value = correction.new_value,
                     ![correction.company_data_id].verified = TRUE]
    ELSE dps

ApproveRecord(co, correction, approved_by) ==
    [correction EXCEPT
        !.old_value = IF correction.old_value = None
                      THEN CurrentValue(co, correction.company_id, correction.field_type)
                      ELSE @,
        !.status = "APPROVED",
        !.approved_by = approved_by,
        !.approved_at = TRUE]

\* Variants of the status test: no test at all; a test that only refuses
\* REJECTED corrections.
IsPending_unchecked(correction) == TRUE
IsPending_not_rejected(correction) == correction.status # "REJECTED"

\* the status test of approve_correction and reject_correction
IsPending(correction) == correction.status = "PENDING"

\* DataCorrectionService.approve_correction
ApproveCorrection(correction_id, approved_by, commit_ok) ==
    /\ IF correction_id \notin DOMAIN corrections
          \/ ~IsPending(corrections[correction_id])
       THEN /\ lastOp' = [NoOp EXCEPT !.op = "approve", !.id = correction_id,
                                        !.result = "error"]
            /\ UNCHANGED <<company, datapoints, corrections>>
       ELSE LET correction == corrections[correction_id] IN
            /\ company' = Commit(commit_ok, company,
                                 ApproveCompany(company, correction))
            /\ datapoints' = Commit(commit_ok, datapoints,
                                    ApproveData(datapoints, correction))
            /\ corrections' = Commit(commit_ok, corrections,
                                  [corrections EXCEPT ![correction_id] =
                                      ApproveRecord(company, correction, approved_by)])
            /\ lastOp' = [NoOp EXCEPT
                             !.op = "approve", !.id = correction_id,
                             !.result = IF commit_ok THEN "ok" ELSE "error"]
    /\ UNCHANGED <<runs, jobs, gateway, calculator, detector, sessions>>

\* A variant that drops the reason when the correction already has metadata.
RejectRecord_drops_reason(correction, rejected_by, rejection_reason) ==
    [correction EXCEPT
        !.status = "REJECTED",
        !.approved_by = rejected_by,
        !.approved_at = TRUE,
        !.metadata = IF Truthy(rejection_reason) /\ ~correction.metadata.present
                     THEN MetaDict(None, rejection_reason)
                     ELSE @]

\* reject_correction lines 166-173
RejectRecord(correction, rejected_by, rejection_reason) ==
    [correction EXCEPT
        !.status = "REJECTED",
        !.approved_by = rejected_by,
        !.approved_at = TRUE,
        !.metadata = IF Truthy(rejection_reason)
                     THEN IF ~correction.metadata.present
                          THEN MetaDict(None, rejection_reason)
                          ELSE [correction.metadata EXCEPT
                                   !.rejection_reason = rejection_reason]
                     ELSE @]

\* DataCorrectionService.reject_correction
RejectCorrection(correction_id, rejected_by, rejection_reason, commit_ok) ==
    /\ IF correction_id \notin DOMAIN corrections
          \/ ~IsPending(corrections[correction_id])
       THEN /\ lastOp' = [NoOp EXCEPT !.op = "reject", !.id = correction_id,
                                        !.result = "error",
                                        !.reason = rejection_reason]
            /\ UNCHANGED corrections
       ELSE /\ corrections' = Commit(commit_ok, corrections,
                                  [corrections EXCEPT ![correction_id] =
                                      RejectRecord(@, rejected_by, rejection_reason)])
            /\ lastOp' = [NoOp EXCEPT
                             !.op = "reject", !.id = correction_id,
                             !.result = IF commit_ok THEN "ok" ELSE "error",
                             !.reason = rejection_reason]
    /\ UNCHANGED <<company, datapoints, runs, jobs, gateway, calculator, detector, sessions>>

\* The bodies of POST /company/{company_id}/corrections the model submits:
\* both values for a company attribute, an attribute the company does not
\* have, a linked DataPoint (of any company), caller metadata, both companies.
Request(c, ft, v, d, m) ==
    [company_id |-> c, field_name |-> ft, field_type |-> ft, new_value |-> v,
     company_data_id |-> d, metadata |-> m]

CorrectionRequests ==
    {Request("c1", "legal_name", v, 0, None) : v \in Values}
    \cup {Request("c1", "legal_name", "v1", 0, "meta"),
          Request("c1", "address", "v1", 0, None),
          Request("c2", "legal_name", "v1", 0, None)}
    \cup {Request(c, "legal_name", "v2", d, None) :
              c \in Companies, d \in DOMAIN datapoints}

CorrectionIds == 1..MaxCorrections

NextC ==
    \/ \E rq \in CorrectionRequests, u \in Users, ok \in BOOLEAN :
            CreateCorrection(rq, u, ok)
    \/ \E id \in CorrectionIds, u \in Users, ok \in BOOLEAN :
            ApproveCorrection(id, u, ok)
    \/ \E id \in CorrectionIds, u \in Users, r \in Reasons, ok \in BOOLEAN :
            RejectCorrection(id, u, r, ok)

\* The correction workflow starts from a database in which company c1 has
\* been verified once (VerifyCompany, then BodyCompletes with the
\* unverified observation): one COMPLETED run and the DataPoint of its domain.

InitC ==
    /\ company = SeedCompanies
    /\ datapoints = StoreDns(<< >>, "c1", UnverifiedObservation)
    /\ runs = << [NewRun("c1") EXCEPT
                     !.risk_score = RiskOf("c1", UnverifiedObservation).risk_score,
                     !.risk_category = RiskOf("c1", UnverifiedObservation).risk_category,
                     !.verification_status = "COMPLETED",
                     !.completed = TRUE] >>
    /\ jobs = [j \in JobIds |-> IdleJob]
    /\ corrections = << >>
    /\ lastOp = NoOp
    /\ redis_client = FALSE
    /\ cache = {}
    /\ now = 0
    /\ calls = 0
    /\ reply = NoReply
    /\ risk_in = DefaultRiskInput
    /\ risk_out = Nothing
    /\ disc_in = NoCall
    /\ disc_out = Nothing
    /\ sessions = [s \in SessionIds |-> IdleSession]

SpecC == InitC /\ [][NextC]_vars

(***************************************************************************)
(* approve_correction and reject_correction in concurrent requests.  Each  *)
(* request has its own database session: it reads the rows it needs, and   *)
(* its commit writes the attributes it changed, by primary key, over       *)
(* whatever the rows hold by then.  No row is locked between the read and  *)
(* the commit and no row carries a version counter.                        *)
(***************************************************************************)
\* The flush of a session: the attributes of a row whose staged value
\* differs from the value the session read are written, the others keep
\* what the row holds now
WriteDirty(current, read, staged) ==
    [a \in DOMAIN current |-> IF staged[a] # read[a] THEN staged[a] ELSE current[a]]

\* approve_correction lines 88-101: the reads and the two tests
BeginApprove(s, correction_id, approved_by) ==
    /\ sessions[s].op = "none"
    /\ IF correction_id \notin DOMAIN corrections
          \/ ~IsPending(corrections[correction_id])
       THEN /\ lastOp' = [NoOp EXCEPT !.op = "approve", !.id = correction_id,
                                        !.result = "error"]
            /\ UNCHANGED sessions
       ELSE /\ sessions' = [sessions EXCEPT ![s] =
                               [IdleSession EXCEPT
                                   !.op = "approve", !.id = correction_id,
                                   !.user = approved_by,
                                   !.correction = corrections[correction_id],
                                   !.company = company,
                                   !.datapoints = datapoints]]
            /\ UNCHANGED lastOp
    /\ UNCHANGED <<company, datapoints, runs, jobs, corrections, gateway, calculator, detector>>

\* approve_correction lines 103-147: the changes staged from what the
\* session read, and its commit
CommitApprove(s, commit_ok) ==
    /\ sessions[s].op = "approve"
    /\ LET read == sessions[s]
           c == read.correction.company_id
           d == read.correction.company_data_id
           staged_company == ApproveCompany(read.company, read.correction)
           staged_data == ApproveData(read.datapoints, read.correction)
           staged_record == ApproveRecord(read.company, read.correction, read.user)
       IN  /\ company' = Commit(commit_ok, company,
                             [company EXCEPT ![c] =
                                 WriteDirty(@, read.company[c], staged_company[c])])
           /\ datapoints' = Commit(commit_ok, datapoints,
                                IF d # 0 /\ d \in DOMAIN read.datapoints
                                THEN [datapoints EXCEPT ![d] =
                                         WriteDirty(@, read.datapoints[d], staged_data[d])]
                                ELSE datapoints)
           /\ corrections' = Commit(commit_ok, corrections,
                                 [corrections EXCEPT ![read.id] =
                                     WriteDirty(@, read.correction, staged_record)])
           /\ lastOp' = [NoOp EXCEPT
                            !.op = "approve", !.id = read.id,
                            !.result = IF commit_ok THEN "ok" ELSE "error"]
    /\ sessions' = [sessions EXCEPT ![s] = IdleSession]
    /\ UNCHANGED <<runs, jobs, gateway, calculator, detector>>

\* reject_correction lines 156-164: the read and the two tests
BeginReject(s, correction_id, rejected_by, rejection_reason) ==
    /\ sessions[s].op = "none"
    /\ IF correction_id \notin DOMAIN corrections
          \/ ~IsPending(corrections[correction_id])
       THEN /\ lastOp' = [NoOp EXCEPT !.op = "reject", !.id = correction_id,
                                        !.result = "error",
                                        !.reason = rejection_reason]
            /\ UNCHANGED sessions
       ELSE /\ sessions' = [sessions EXCEPT ![s] =
                               [IdleSession EXCEPT
                                   !.op = "reject", !.id = correction_id,
                                   !.user = rejected_by,
                                   !.reason = rejection_reason,
                                   !.correction = corrections[correction_id]]]
            /\ UNCHANGED lastOp
    /\ UNCHANGED <<company, datapoints, runs, jobs, corrections, gateway, calculator, detector>>

\* reject_correction lines 166-181
CommitReject(s, commit_ok) ==
    /\ sessions[s].op = "reject"
    /\ LET read == sessions[s]
           staged_record == RejectRecord(read.correction, read.user, read.reason)
       IN  /\ corrections' = Commit(commit_ok, corrections,
                                 [corrections EXCEPT ![read.id] =
                                     WriteDirty(@, read.correction, staged_record)])
           /\ lastOp' = [NoOp EXCEPT
                            !.op = "reject", !.id = read.id,
                            !.result = IF commit_ok THEN "ok" ELSE "error",
                            !.reason = read.reason]
    /\ sessions' = [sessions EXCEPT ![s] = IdleSession]
    /\ UNCHANGED <<company, datapoints, runs, jobs, gateway, calculator, detector>>

\* The corrections submitted while approvals and rejections run
\* concurrently: one for each value of the legal name of c1, one of them
\* linked to the DataPoint of c1
ConcurrentRequests ==
    {Request("c1", "legal_name", "v1", 0, None),
     Request("c1", "legal_name", "v2", 1, None)}

NextT ==
    \/ \E rq \in ConcurrentRequests, u \in Users : CreateCorrection(rq, u, TRUE)
    \/ \E s \in SessionIds, id \in CorrectionIds, u \in Users :
            BeginApprove(s, id, u)
    \/ \E s \in SessionIds, ok \in BOOLEAN : CommitApprove(s, ok)
    \/ \E s \in SessionIds, id \in CorrectionIds, u \in Users, r \in Reasons :
            BeginReject(s, id, u, r)
    \/ \E s \in SessionIds, ok \in BOOLEAN : CommitReject(s, ok)

SpecT == InitC /\ [][NextT]_vars

(***************************************************************************)
(* DataCollectionService.  A string is the sequence of its pieces, so that *)
(* the f-strings that build the cache key are concatenations.              *)
(***************************************************************************)
MaxCalls == 2
MaxTime == 5400

cache_ttl == 3600
collection_max_retries == 3
retry_delay == 1

\* The clock advances by half a TTL between calls
TickSeconds == cache_ttl \div 2

SourceNames == {<<"a">>, <<"b">>}
GoodEndpoint == <<"https", ":", "//x.io/a">>
BadEndpoint == <<"ftp", ":", "//x.io/a">>

\* validate_url: http or https, "://", a host and an optional path
validate_url(url) ==
    /\ Len(url) = 3
    /\ url[1] \in {"http", "https"}
    /\ url[2] = ":"
    /\ url[3] \in {"//x.io/a"}

\* params: None, or a dict given by the set of its keys
ParamsValues == {Nothing, Some({}), Some({"q"})}

\* json.dumps(params or {})
dumps_params(params) ==
    IF params = Nothing \/ params[1] = {} THEN <<"{}">> ELSE <<"{", "q", "}">>

\* hashlib.md5(...).hexdigest(), taken to be free of collisions
md5(key_data) == <<"md5">> \o key_data

_get_cache_key(source, query) ==
    <<"data_collection", ":">> \o md5(source \o <<":">> \o query)

\* The key collect_from_api computes at line 112
ApiCacheKey(source, endpoint, params) ==
    _get_cache_key(source, endpoint \o <<":">> \o dumps_params(params))

\* redis.get: the value under the key unless it has expired
_get_from_cache(client, c, t, cache_key) ==
    IF ~client THEN Nothing
    ELSE IF \E e \in c : e.key = cache_key /\ t < e.expires
    THEN Some((CHOOSE e \in c : e.key = cache_key /\ t < e.expires).value)
    ELSE Nothing

\* redis.setex(key, ttl, json.dumps(data)) with the default ttl
_set_cache(client, c, t, cache_key, data) ==
    IF ~client THEN c
    ELSE {e \in c : e.key # cache_key}
             \cup {[key |-> cache_key, value |-> data, expires |-> t + cache_ttl]}

\* What one HTTP request does: a JSON body (a list, given by its length), or
\* one of the exceptions of _make_api_request
JsonBodies == {0, 1}
Answer(body) == [ok |-> TRUE, json |-> body, error |-> None]
Raise(error) == [ok |-> FALSE, json |-> 0, error |-> error]
NetworkErrors == {"timeout", "http_status", "too_large"}
Outcomes == {Answer(b) : b \in JsonBodies} \cup {Raise(e) : e \in NetworkErrors}

\* The outcomes of the requests of one call, in order: the requests that
\* fail raise the same exception, and the entries after the first answer,
\* which no request reaches, repeat it
Scenarios ==
    {net \in [1..collection_max_retries -> Outcomes] :
        /\ \A k \in 1..(collection_max_retries - 1) : net[k].ok => net[k + 1] = net[k]
        /\ \A k \in 2..collection_max_retries : net[k].ok \/ net[k] = net[1]}

_make_api_request(endpoint, outcome) ==
    IF ~validate_url(endpoint) THEN Raise("invalid_url") ELSE outcome

\* A variant of the loop without backoff: every wait is retry_delay.
RECURSIVE retry_loop_fixed_delay(_, _, _, _, _)
retry_loop_fixed_delay(endpoint, net, attempt, max, delay) ==
    LET r == _make_api_request(endpoint, net[attempt + 1]) IN
    IF r.ok
    THEN [raised |-> FALSE, value |-> r.json, error |-> None,
          log |-> <<TRUE>>, waits |-> << >>]
    ELSE IF attempt = max - 1
    THEN [raised |-> TRUE, value |-> 0, error |-> r.error,
          log |-> <<FALSE>>, waits |-> << >>]
    ELSE LET rest == retry_loop_fixed_delay(endpoint, net, attempt + 1, max, delay)
         IN  [rest EXCEPT !.log = <<FALSE>> \o @,
                          !.waits = <<delay>> \o @]

\* The for loop of _retry_request from iteration `attempt` on: what it
\* returns or raises, the requests it issues (log: whether each was
\* answered) and the waits it sleeps
RECURSIVE retry_loop(_, _, _, _, _)
retry_loop(endpoint, net, attempt, max, delay) ==
    LET r == _make_api_request(endpoint, net[attempt + 1]) IN
    IF r.ok
    THEN [raised |-> FALSE, value |-> r.json, error |-> None,
          log |-> <<TRUE>>, waits |-> << >>]
    ELSE IF attempt = max - 1
    THEN [raised |-> TRUE, value |-> 0, error |-> r.error,
          log |-> <<FALSE>>, waits |-> << >>]
    ELSE LET wait_time == delay * (2 ^ attempt)
             rest == retry_loop(endpoint, net, attempt + 1, max, delay)
         IN  [rest EXCEPT !.log = <<FALSE>> \o @,
                          !.waits = <<wait_time>> \o @]

_retry_request(endpoint, net) ==
    retry_loop(endpoint, net, 0, collection_max_retries, retry_delay)

RECURSIVE SumSeq(_)
SumSeq(q) == IF q = << >> THEN 0 ELSE q[1] + SumSeq(Tail(q))

\* The dicts collect_from_api returns; keys is the set of keys present
SuccessResult(data, source, t) ==
    [keys |-> {"success", "data", "source", "collected_at", "cached"},
     success |-> TRUE, data |-> data, error |-> None, source |-> source,
     collected_at |-> t, cached |-> FALSE]

FailureResult(error, source) ==
    [keys |-> {"success", "error", "source"},
     success |-> FALSE, data |-> 0, error |-> error, source |-> source,
     collected_at |-> 0, cached |-> FALSE]

\* collect_from_api: the dict it returns, the cache and the clock after it,
\* the requests issued (log) and the waits slept
collect_from_api(client, c, t, source, endpoint, params, use_cache, net) ==
    LET cache_key == ApiCacheKey(source, endpoint, params)
        cached == IF use_cache THEN _get_from_cache(client, c, t, cache_key)
                  ELSE Nothing
        r == _retry_request(endpoint, net)
        t2 == t + SumSeq(r.waits)
        result == SuccessResult(r.value, source, t2)
    IN  IF cached # Nothing
        THEN [result |-> [cached[1] EXCEPT
                              !.cached = TRUE,
                              !.keys = @ \cup {"cached"}],
              cache |-> c, now |-> t, log |-> << >>, waits |-> << >>]
        ELSE IF r.raised
        THEN [result |-> FailureResult(r.error, source),
              cache |-> c, now |-> t2, log |-> r.log, waits |-> r.waits]
        ELSE IF r.value # 0
        THEN [result |-> result,
              cache |-> IF use_cache
                        THEN _set_cache(client, c, t2, cache_key, result)
                        ELSE c,
              now |-> t2, log |-> r.log, waits |-> r.waits]
        ELSE [result |-> FailureResult("Request failed", source),
              cache |-> c, now |-> t2, log |-> r.log, waits |-> r.waits]

ApiCall(source, endpoint, params, use_cache) ==
    [source |-> source, endpoint |-> endpoint, params |-> params,
     use_cache |-> use_cache]

\* The calls the model makes: two sources, three params of which two give
\* the same key, an endpoint that is not a valid URL, and a call that
\* bypasses the cache
ApiCalls ==
    {ApiCall(<<"a">>, GoodEndpoint, p, TRUE) : p \in ParamsValues}
    \cup {ApiCall(<<"b">>, GoodEndpoint, Nothing, TRUE),
          ApiCall(<<"a">>, BadEndpoint, Nothing, TRUE),
          ApiCall(<<"a">>, GoodEndpoint, Nothing, FALSE)}

CollectFromApi(call, net) ==
    /\ calls < MaxCalls
    /\ LET out == collect_from_api(redis_client, cache, now, call.source,
                                   call.endpoint, call.params, call.use_cache, net)
       IN  /\ cache' = out.cache
           /\ now' = out.now
           /\ reply' = [op |-> "api", call |-> call, at |-> now,
                        hit |-> \E e \in cache :
                                   /\ e.key = ApiCacheKey(call.source,
                                                  call.endpoint, call.params)
                                   /\ now < e.expires,
                        result |-> out.result, log |-> out.log,
                        waits |-> out.waits]
    /\ calls' = calls + 1
    /\ UNCHANGED <<company, datapoints, runs, jobs, corrections, lastOp, redis_client, calculator, detector, sessions>>

\* A source configuration of collect_from_multiple_sources
SourceConfig(name, type) ==
    [name |-> name, type |-> type, endpoint |-> GoodEndpoint,
     params |-> Some({}), use_cache |-> TRUE]

SourceConfigs ==
    {SourceConfig(<<"a">>, "api"), SourceConfig(<<"b">>, "api"),
     SourceConfig(<<"w">>, "web_scraping")}

\* The lists of sources the model submits: one source, or two sources in
\* the order a, b, w
SourceLists ==
    {<<x>> : x \in SourceConfigs}
    \cup {q \in [1..2 -> SourceConfigs] :
             <<q[1].name[1], q[2].name[1]>> \in {<<"a", "b">>, <<"a", "w">>, <<"b", "w">>}}

\* For a list of sources each request of a source has the same outcome
SteadyScenarios == {[k \in 1..collection_max_retries |-> o] : o \in Outcomes}

\* The for loop of collect_from_multiple_sources from source i on: the
\* results it appends, and the cache and the clock after it
RECURSIVE collect_loop(_, _, _, _, _, _)
collect_loop(client, c, t, sources, nets, i) ==
    IF i > Len(sources)
    THEN [results |-> << >>, cache |-> c, now |-> t]
    ELSE IF sources[i].type = "api"
    THEN LET out == collect_from_api(client, c, t, sources[i].name,
                        sources[i].endpoint, sources[i].params,
                        sources[i].use_cache, nets[i])
             rest == collect_loop(client, out.cache, out.now, sources, nets, i + 1)
         IN  [rest EXCEPT !.results = <<out.result>> \o @]
    ELSE collect_loop(client, c, t, sources, nets, i + 1)

\* [r["source"] for r in results if keep(r)]
RECURSIVE SourcesWhere(_, _)
SourcesWhere(results, success) ==
    IF results = << >> THEN << >>
    ELSE (IF results[1].success = success THEN <<results[1].source>> ELSE << >>)
             \o SourcesWhere(Tail(results), success)

\* collect_from_multiple_sources: the dict it returns
collect_from_multiple_sources(sources, results) ==
    [success |-> SourcesWhere(results, TRUE) # << >>,
     results |-> results,
     successful_sources |-> SourcesWhere(results, TRUE),
     failed_sources |-> SourcesWhere(results, FALSE),
     total_sources |-> Len(sources)]

CollectFromMultipleSources(sources, nets) ==
    /\ calls < MaxCalls
    /\ LET out == collect_loop(redis_client, cache, now, sources, nets, 1)
       IN  /\ cache' = out.cache
           /\ now' = out.now
           /\ reply' = [op |-> "multi", sources |-> sources, at |-> now,
                        result |-> collect_from_multiple_sources(sources, out.results)]
    /\ calls' = calls + 1
    /\ UNCHANGED <<company, datapoints, runs, jobs, corrections, lastOp, redis_client, calculator, detector, sessions>>

\* Time passes between two calls; entries that have expired are gone
\* max_retries = max_retries or self.max_retries: None and 0 give the
\* default
retries_or_default(retries) ==
    IF retries = Nothing \/ retries[1] = 0 THEN collection_max_retries
    ELSE retries[1]

\* _retry_request(func, max_retries=n) called on its own, with a func that
\* issues one request: reply records whether the call raised, the value it
\* returned, and the calls of func it made
RetryRequest(retries, net) ==
    /\ calls < MaxCalls
    /\ LET r == retry_loop(GoodEndpoint, net, 0,
                           retries_or_default(retries), retry_delay)
       IN  /\ now' = now + SumSeq(r.waits)
           /\ reply' = [op |-> "retry", max_retries |-> retries,
                        raised |-> r.raised,
                        value |-> IF r.raised THEN Nothing ELSE Some(r.value),
                        log |-> r.log, waits |-> r.waits]
    /\ calls' = calls + 1
    /\ UNCHANGED <<company, datapoints, runs, jobs, corrections, lastOp, redis_client, cache, calculator, detector, sessions>>

Tick ==
    /\ now + TickSeconds <= MaxTime
    /\ now' = now + TickSeconds
    /\ cache' = {e \in cache : now' < e.expires}
    /\ UNCHANGED <<company, datapoints, runs, jobs, corrections, lastOp, redis_client, calls, reply, calculator, detector, sessions>>

NextD ==
    \/ \E call \in ApiCalls, net \in Scenarios : CollectFromApi(call, net)
    \/ \E sources \in SourceLists :
          \E nets \in [1..Len(sources) -> SteadyScenarios] :
            CollectFromMultipleSources(sources, nets)
    \/ \E retries \in {Nothing, Some(1), Some(2)}, net \in SteadyScenarios :
          RetryRequest(retries, net)
    \/ Tick

\* The service is built with a Redis client or, as DataCollectionService()
\* builds it, without one.
InitD ==
    /\ company = SeedCompanies
    /\ datapoints = << >>
    /\ runs = << >>
    /\ jobs = [j \in JobIds |-> IdleJob]
    /\ corrections = << >>
    /\ lastOp = NoOp
    /\ redis_client \in BOOLEAN
    /\ cache = {}
    /\ now = 0
    /\ calls = 0
    /\ reply = NoReply
    /\ risk_in = DefaultRiskInput
    /\ risk_out = Nothing
    /\ disc_in = NoCall
    /\ disc_out = Nothing
    /\ sessions = [s \in SessionIds |-> IdleSession]

SpecD == InitD /\ [][NextD]_vars

(***************************************************************************)
(* RiskCalculator.calculate_overall_risk as a call: the arguments are      *)
(* drawn when the behaviour starts and the call returns in one step.       *)
(***************************************************************************)
\* email_valid with email_exists, and phone_valid with phone_carrier_valid
ContactChecks ==
    {<<FALSE, Nothing>>, <<TRUE, Some(FALSE)>>, <<TRUE, Some(TRUE)>>, <<TRUE, Nothing>>}

\* registration_matches with total_sources
RegistrationCounts == {<<0, 0>>, <<9, 10>>, <<7, 10>>, <<5, 10>>, <<4, 10>>}

RiskInput(dns, age, reg, email, phone, matches, ssl, keywords, consistency, reliability) ==
    [dns_verified |-> dns, domain_age_days |-> age,
     registration_matches |-> reg[1], total_sources |-> reg[2],
     email_valid |-> email[1], phone_valid |-> phone[1],
     email_exists |-> email[2], phone_carrier_valid |-> phone[2],
     domain_matches_company |-> matches, ssl_valid |-> ssl,
     suspicious_keywords |-> keywords,
     data_consistency_pct |-> consistency, source_reliability_pct |-> reliability]

RiskInputs ==
    {RiskInput(dns, age, reg, email, phone, matches, ssl, keywords, consistency, reliability) :
        dns \in BOOLEAN,
        age \in {Nothing, Some(15), Some(60), Some(200), Some(365)},
        reg \in RegistrationCounts,
        email \in ContactChecks, phone \in ContactChecks,
        matches \in BOOLEAN,
        ssl \in {Nothing, Some(FALSE), Some(TRUE)},
        keywords \in {0, 3},
        consistency \in {0, 40, 90, 100},
        reliability \in {0, 50, 80, 100}}

CalculateOverallRisk ==
    /\ risk_out = Nothing
    /\ risk_out' = Some(calculate_overall_risk(risk_in))
    /\ UNCHANGED <<company, datapoints, runs, jobs, corrections, lastOp, gateway, risk_in, detector, sessions>>

NextR == CalculateOverallRisk

InitR ==
    /\ company = SeedCompanies
    /\ datapoints = << >>
    /\ runs = << >>
    /\ jobs = [j \in JobIds |-> IdleJob]
    /\ corrections = << >>
    /\ lastOp = NoOp
    /\ redis_client = FALSE
    /\ cache = {}
    /\ now = 0
    /\ calls = 0
    /\ reply = NoReply
    /\ risk_in \in RiskInputs
    /\ risk_out = Nothing
    /\ disc_in = NoCall
    /\ disc_out = Nothing
    /\ sessions = [s \in SessionIds |-> IdleSession]

SpecR == InitR /\ [][NextR]_vars

(***************************************************************************)
(* The three detection functions of DiscrepancyDetectionService as calls:  *)
(* the arguments are drawn when the behaviour starts and the call returns  *)
(* in one step.                                                            *)
(***************************************************************************)
MaxSources == 2

SourceIds == <<"a", "b", "c">>

NameTexts ==
    {<< >>, <<"Acme">>, <<"ACME">>, <<Blank, "acme", Blank>>,
     <<"Acme", Blank, "Inc">>, <<"Acme", Blank, Blank, "INC">>,
     <<"Acme", Blank, "Co", Blank, "Inc">>, <<"Acme", Blank, "Inc", Blank, "Co">>,
     <<"Other", Blank, "Inc">>, <<"Acme", Blank, "Other">>}

RegistrationTexts ==
    {<< >>, <<"ab1">>, <<"AB1">>, <<Blank, "ab1", Blank>>, <<"AB2">>,
     <<"AB", Blank, "1">>, <<"ab", Blank, Blank, "1">>}

\* The lists of 0..MaxSources values drawn from texts
ValueLists(texts) == UNION {[1..n -> texts] : n \in 0..MaxSources}

NameSources(values) ==
    [i \in 1..Len(values) |-> [source |-> SourceIds[i], name |-> values[i]]]

RegistrationSources(values) ==
    [i \in 1..Len(values) |-> [source |-> SourceIds[i], registration_number |-> values[i]]]

\* An address that gives the same one-word value for the fields of given
\* and nothing for the others
AddressOf(given, word) ==
    [f \in FieldNames |-> IF f \in given THEN Some(<<word>>) ELSE Nothing]

PrimaryAddresses ==
    {AddressOf(FieldNames, "x"),
     AddressOf(FieldNames \ {"country"}, "x"),
     AddressOf({"street", "city"}, "x"),
     AddressOf({}, "x"),
     [AddressOf({"city"}, "x") EXCEPT !["street"] = Some(<<Blank>>)]}

SourceAddresses == [FieldNames -> {Nothing, Some(<<"X">>), Some(<<"y">>)}]

\* One source with the given address, followed by n - 1 sources that give
\* the primary address as a source writes it: upper case, nothing for a
\* blank field
AddressSources(primary_address, address, n) ==
    LET echo == [f \in FieldNames |->
                    IF _normalize_text(OrEmpty(primary_address[f])) = << >>
                    THEN Nothing
                    ELSE Some(_normalize_text(OrEmpty(primary_address[f])))]
    IN  [i \in 1..n |-> [source |-> SourceIds[i],
                         address |-> IF i = 1 THEN address ELSE echo]]

Detect ==
    /\ disc_out = Nothing
    /\ disc_in.fn # "none"
    /\ disc_out' =
           Some(CASE disc_in.fn = "name" ->
                         detect_name_discrepancies(disc_in.primary, disc_in.sources)
                  [] disc_in.fn = "address" ->
                         detect_address_discrepancies(disc_in.primary, disc_in.sources)
                  [] disc_in.fn = "registration" ->
                         detect_registration_discrepancies(disc_in.primary, disc_in.sources))
    /\ UNCHANGED <<company, datapoints, runs, jobs, corrections, lastOp, gateway, calculator, disc_in, sessions>>

NextF == Detect

InitF ==
    /\ company = SeedCompanies
    /\ datapoints = << >>
    /\ runs = << >>
    /\ jobs = [j \in JobIds |-> IdleJob]
    /\ corrections = << >>
    /\ lastOp = NoOp
    /\ redis_client = FALSE
    /\ cache = {}
    /\ now = 0
    /\ calls = 0
    /\ reply = NoReply
    /\ risk_in = DefaultRiskInput
    /\ risk_out = Nothing
    /\ disc_out = Nothing
    /\ sessions = [s \in SessionIds |-> IdleSession]
    /\ \/ \E primary \in NameTexts, values \in ValueLists(NameTexts) :
              disc_in = [fn |-> "name", primary |-> primary,
                         sources |-> NameSources(values)]
       \/ \E primary \in RegistrationTexts, values \in ValueLists(RegistrationTexts) :
              disc_in = [fn |-> "registration", primary |-> primary,
                         sources |-> RegistrationSources(values)]
       \/ \E primary \in PrimaryAddresses :
              disc_in = [fn |-> "address", primary |-> primary, sources |-> << >>]
       \/ \E primary \in PrimaryAddresses, address \in SourceAddresses, n \in 1..MaxSources :
              disc_in = [fn |-> "address", primary |-> primary,
                         sources |-> AddressSources(primary, address, n)]

SpecF == InitF /\ [][NextF]_vars

(***************************************************************************)
(* Claims about the verification run lifecycle (checked under SpecV)       *)
(***************************************************************************)
\* C1: at most one run per company is IN_PROGRESS at any time: a step that
\* creates a run creates it for a company that has no IN_PROGRESS run in the
\* state the step starts from (so the step did not race with another start).
C1_OneInProgressPerCompany ==
    [][Len(runs') > Len(runs) =>
          InProgressRuns(runs, runs'[Len(runs')].company_id) = {}]_vars

\* C2: once the job body has returned or raised, every run the job created
\* or reused as IN_PROGRESS has reached COMPLETED or FAILED.
C2_NoRunLeftInProgress ==
    \A j \in JobIds :
        jobs[j].pc = "done" =>
            \A r \in {jobs[j].tr, jobs[j].vr} \ {0} :
                runs[r].verification_status \in {"COMPLETED", "FAILED"}

\* C3: COMPLETED and FAILED are terminal: no step changes the status of a
\* run that is COMPLETED or FAILED.
C3_TerminalStatus ==
    [][\A i \in DOMAIN runs :
          runs[i].verification_status \in {"COMPLETED", "FAILED"}
              => runs'[i].verification_status = runs[i].verification_status]_vars

C11_EnrichmentNeverFails ==
    [][\A j \in JobIds :
          (jobs[j].pc = "body" /\ jobs'[j].pc # "body" /\ jobs'[j].ai = "raised"
           /\ jobs'[j].exc \notin Exceptions)
          => /\ jobs'[j].exc = None
             /\ runs'[jobs[j].vr].verification_status = "COMPLETED"]_vars

\* C12: a verification started for an id with no company fails with the
\* not-found error and creates no run, on both start paths: no run carries
\* an id with no company, and a finished job for such an id ended with the
\* not-found error of verify_company.
C12_UnknownCompanyNotFound ==
    /\ \A i \in DOMAIN runs : runs[i].company_id \in Companies
    /\ \A j \in JobIds :
          (jobs[j].pc = "done" /\ jobs[j].company \notin Companies)
          => (jobs[j].result = "not_found" \/ jobs[j].exc = "not_found")

(***************************************************************************)
(* Claims about the cancel endpoint and get_verification_result (checked   *)
(* under SpecQ).  A step that leaves the jobs alone is a call of one of    *)
(* the two, and lastOp' tells which.                                       *)
(***************************************************************************)
\* C13: cancelling the verification of a company that has no IN_PROGRESS run
\* reports success and leaves every run (status, completed_at, risk_score)
\* unchanged.
C13_CancelWithoutRunIsNoOp ==
    [][\A c \in Companies :
          (jobs' = jobs /\ lastOp'.op = "cancel" /\ lastOp'.company = c
           /\ \A i \in DOMAIN runs :
                  runs[i].company_id = c
                      => runs[i].verification_status \in {"COMPLETED", "FAILED"})
          => /\ lastOp'.result = "success"
             /\ runs' = runs]_vars

\* The last cancel call cancelled nothing and reported success, for a
\* company that has a COMPLETED run and a FAILED run and none IN_PROGRESS.
C13_Witness ==
    /\ lastOp.op = "cancel" /\ lastOp.result = "success" /\ lastOp.id = 0
    /\ lastOp.seen = Len(runs)
    /\ \E i, k \in DOMAIN runs :
          /\ runs[i].company_id = lastOp.company
          /\ runs[k].company_id = lastOp.company
          /\ runs[i].verification_status = "COMPLETED"
          /\ runs[k].verification_status = "FAILED"
    /\ \A i \in DOMAIN runs : runs[i].verification_status # "IN_PROGRESS"

\* C14: get_verification_result returns the run of the company created last
\* (none when the company has no run) and changes nothing; a call that
\* follows a call for the same company with no run created in between
\* returns the same run.
C14_LatestResultIsPure ==
    [][(jobs' = jobs /\ lastOp'.op = "get") =>
          LET c == lastOp'.company
              own == {i \in DOMAIN runs : runs[i].company_id = c}
          IN  /\ UNCHANGED <<company, datapoints, runs, jobs, corrections>>
              /\ IF own = {} THEN lastOp'.id = 0
                 ELSE lastOp'.id \in own /\ \A k \in own : k <= lastOp'.id
              /\ (lastOp.op = "get" /\ lastOp.company = c
                    /\ lastOp.seen = Len(runs))
                  => lastOp'.id = lastOp.id]_vars

\* get_verification_result has just returned the later of two runs of a
\* company.
C14_Witness ==
    /\ lastOp.op = "get" /\ lastOp.seen = Len(runs)
    /\ lastOp.id \in DOMAIN runs
    /\ \E i \in DOMAIN runs :
          i < lastOp.id /\ runs[i].company_id = lastOp.company

(***************************************************************************)
(* Claims about the Data Collection Gateway (checked under SpecD).  A step *)
(* that raises calls is a collect call, and reply' describes it.           *)
(***************************************************************************)
ApiStep == calls' = calls + 1 /\ reply'.op = "api"

\* The unexpired Redis entries under the key of the call, before the call
EntriesFor(call) ==
    {e \in cache : /\ e.key = ApiCacheKey(call.source, call.endpoint, call.params)
                   /\ now < e.expires}

\* C15: with use_cache, an entry under the key of the call is returned tagged
\* cached=true and no request is issued; on a miss a request is issued and,
\* when one is answered, the result is returned tagged cached=false and is
\* stored under the key for cache_ttl seconds, so that the same call made
\* within the TTL is a hit.  Without use_cache a request is issued whatever
\* the cache holds and the cache is left as it is.
C15_CacheHitAndStore ==
    [][ApiStep =>
          LET call == reply'.call
              answered == \E k \in DOMAIN reply'.log : reply'.log[k]
          IN  /\ (call.use_cache /\ EntriesFor(call) # {})
                    => /\ reply'.log = << >>
                       /\ reply'.result.cached = TRUE
                       /\ \E e \in EntriesFor(call) :
                             reply'.result = [e.value EXCEPT !.cached = TRUE]
                       /\ cache' = cache
              /\ (call.use_cache /\ EntriesFor(call) = {})
                    => /\ reply'.log # << >>
                       /\ answered =>
                             /\ reply'.result.success
                             /\ reply'.result.cached = FALSE
                             /\ \E e \in cache' :
                                   /\ e.key = ApiCacheKey(call.source,
                                                  call.endpoint, call.params)
                                   /\ e.value = reply'.result
                                   /\ e.expires = now' + cache_ttl
              /\ ~call.use_cache
                    => /\ reply'.log # << >>
                       /\ cache' = cache]_vars

C17_FailureIsStructured ==
    [][(ApiStep /\ reply'.log # << >>) =>
          IF \E k \in DOMAIN reply'.log : reply'.log[k]
          THEN reply'.result.success
          ELSE /\ reply'.result.keys = {"success", "error", "source"}
               /\ ~reply'.result.success
               /\ reply'.result.error # None
               /\ reply'.result.source = reply'.call.source
               /\ cache' = cache]_vars

\* C18: collect_from_multiple_sources returns one result per input source,
\* in input order, and every input source is named in exactly one of
\* successful_sources and failed_sources, whatever its type.
C18_OneResultPerSource ==
    [][(calls' = calls + 1 /\ reply'.op = "multi") =>
          LET sources == reply'.sources
              out == reply'.result
          IN  /\ Len(out.results) = Len(sources)
              /\ \A i \in DOMAIN sources :
                    /\ i \in DOMAIN out.results
                    /\ out.results[i].source = sources[i].name
                    /\ (\E k \in DOMAIN out.successful_sources :
                           out.successful_sources[k] = sources[i].name)
                       # (\E k \in DOMAIN out.failed_sources :
                             out.failed_sources[k] = sources[i].name)
              /\ Len(out.successful_sources) + Len(out.failed_sources)
                    = Len(sources)]_vars

(***************************************************************************)
(* Claims about the risk calculator (checked under SpecR)                  *)
(***************************************************************************)
\* C19: whatever the arguments, calculate_overall_risk returns an integer
\* risk_score in 0..100 and the category of that score: LOW up to 30,
\* MEDIUM from 31 to 70, HIGH from 71.
C19_ScoreRangeAndCategory ==
    risk_out # Nothing =>
        /\ risk_out[1].risk_score \in 0..100
        /\ risk_out[1].risk_category = "LOW" <=> risk_out[1].risk_score <= 30
        /\ risk_out[1].risk_category = "MEDIUM" <=>
               (30 < risk_out[1].risk_score /\ risk_out[1].risk_score <= 70)
        /\ risk_out[1].risk_category = "HIGH" <=> risk_out[1].risk_score > 70

\* A call has returned exactly 30, with category LOW.
C19_Witness ==
    /\ risk_out # Nothing
    /\ risk_out[1].risk_score = 30
    /\ risk_out[1].risk_category = "LOW"

\* A call has returned exactly 71, with category HIGH.
C19_WitnessHigh ==
    /\ risk_out # Nothing
    /\ risk_out[1].risk_score = 71
    /\ risk_out[1].risk_category = "HIGH"

\* The arguments of the scenario of C20: DNS not verified, the rest good
DnsFailsOnly ==
    RiskInput(FALSE, Some(365), <<9, 10>>, <<TRUE, Some(TRUE)>>,
              <<TRUE, Some(TRUE)>>, TRUE, Some(TRUE), 0, 90, 80)

\* C20: with dns_verified false and every other argument good,
\* calculate_overall_risk returns a risk_score above 70.
C20_DnsFailureIsHighRisk ==
    (risk_out # Nothing /\ risk_in = DnsFailsOnly) => risk_out[1].risk_score > 70

\* The weighted sum of the components a result carries, by the weights it
\* carries
WeightedSum(result) ==
    result.dns_risk * result.weights.dns
    + result.registration_risk * result.weights.registration
    + result.contact_risk * result.weights.contact
    + result.domain_risk * result.weights.domain
    + result.cross_source_risk * result.weights.cross_source

\* C21: the result of calculate_overall_risk carries its five component
\* risks, each in 0..100, and the weights 25, 25, 20, 15, 15, and its
\* risk_score is the integer floor of the weighted sum of exactly those
\* components over 100.
C21_ScoreAuditable ==
    risk_out # Nothing =>
        /\ DOMAIN risk_out[1] = {"risk_score", "risk_category", "dns_risk",
                                 "registration_risk", "contact_risk",
                                 "domain_risk", "cross_source_risk", "weights"}
        /\ \A k \in {"dns_risk", "registration_risk", "contact_risk",
                     "domain_risk", "cross_source_risk"} :
               risk_out[1][k] \in 0..100
        /\ risk_out[1].weights = [dns |-> 25, registration |-> 25, contact |-> 20,
                                  domain |-> 15, cross_source |-> 15]
        /\ risk_out[1].risk_score = WeightedSum(risk_out[1]) \div 100

\* A call has returned a score that is the floor of a weighted sum with a
\* fractional part, from a contact component that was clamped at 0.
C21_Witness ==
    /\ risk_out # Nothing
    /\ WeightedSum(risk_out[1]) % 100 # 0
    /\ risk_in.email_exists = Some(TRUE)
    /\ risk_in.phone_carrier_valid = Some(TRUE)
    /\ risk_out[1].contact_risk = 0

\* C25: when func fails on every attempt, _retry_request(func,
\* max_retries=n) calls func exactly n times and then returns None.
C25_ExhaustedRetriesReturnNone ==
    (/\ reply.op = "retry"
     /\ reply.max_retries # Nothing
     /\ \A k \in DOMAIN reply.log : ~reply.log[k]) =>
        /\ Len(reply.log) = reply.max_retries[1]
        /\ ~reply.raised

(***************************************************************************)
(* Claims about discrepancy detection (checked under SpecF)                *)
(***************************************************************************)
\* Every source of the call gives, after normalization, the value the
\* primary gives (for an address: in every sub-field)
AllIdentical(call) ==
    \A i \in 1..Len(call.sources) :
        CASE call.fn = "name" ->
                 _normalize_name(call.sources[i].name) = _normalize_name(call.primary)
          [] call.fn = "registration" ->
                 normalize_registration(call.sources[i].registration_number)
                     = normalize_registration(call.primary)
          [] call.fn = "address" ->
                 \A f \in FieldNames :
                     _normalize_text(OrEmpty(call.sources[i].address[f]))
                         = _normalize_text(OrEmpty(call.primary[f]))

\* C22: a detection call whose sources all give the primary value after
\* normalization (at least one source) returns severity "none", confidence
\* 1.0 and no discrepancy entry; a call with no source returns severity
\* "high" and confidence 0.0.
C22_IdenticalOrEmptySources ==
    disc_out # Nothing =>
        /\ (disc_in.sources # << >> /\ AllIdentical(disc_in)) =>
               /\ disc_out[1].raised = None
               /\ disc_out[1].severity = "none"
               /\ disc_out[1].confidence[1] = disc_out[1].confidence[2]
               /\ disc_out[1].discrepancies = << >>
        /\ disc_in.sources = << >> =>
               /\ disc_out[1].raised = None
               /\ disc_out[1].severity = "high"
               /\ disc_out[1].confidence[1] = 0

\* The number of sub-fields a source address gives
Provided(source_address) == Cardinality({f \in FieldNames : Given(source_address[f])})

\* The number of sub-fields a source address gives with the primary's
\* normalized value
Agreeing(primary_address, source_address) ==
    Cardinality({f \in FieldNames :
        /\ Given(source_address[f])
        /\ _normalize_text(OrEmpty(source_address[f]))
               = _normalize_text(OrEmpty(primary_address[f]))})

\* The result has no address_mismatch entry for the source
CountedAsMatch(result, source) ==
    \A k \in 1..Len(result.discrepancies) : result.discrepancies[k].source # source.source

\* C24: detect_address_discrepancies counts a source as matching the
\* primary address exactly when at least 80% of the sub-fields the source
\* gives equal the primary's normalized value.
C24_AddressMatchOverSourceFields ==
    (disc_out # Nothing /\ disc_in.fn = "address" /\ disc_out[1].raised = None) =>
        \A i \in 1..Len(disc_in.sources) :
            Provided(disc_in.sources[i].address) > 0 =>
                (CountedAsMatch(disc_out[1], disc_in.sources[i])
                 <=> 5 * Agreeing(disc_in.primary, disc_in.sources[i].address)
                         >= 4 * Provided(disc_in.sources[i].address))

(***************************************************************************)
(* Re-execution of the verification job (checked under SpecV)              *)
(***************************************************************************)
\* C23: executing the verification of a company again (a second start or a
\* retry of the task) adds no DataPoint with the company, field_name,
\* field_value and source of a DataPoint an earlier execution stored.
C23_ReExecutionAddsNoDuplicate ==
    \A i, k \in 1..Len(datapoints) :
        (/\ datapoints[i].company_id = datapoints[k].company_id
         /\ datapoints[i].field_name = datapoints[k].field_name
         /\ datapoints[i].field_value = datapoints[k].field_value
         /\ datapoints[i].source = datapoints[k].source) => i = k

(***************************************************************************)
(* Claims about the correction workflow (checked under SpecC)              *)
(***************************************************************************)
Version10 == <<"1", ".", "0">>
Version11 == <<"1", ".", "1">>

\* "M.(m+1)" follows "M.m", written out for the versions the bounds reach
FollowsVersion(next, prev) ==
    \E M \in 1..9, m \in 0..8 :
        /\ prev = <<DigitChars[M + 1], ".", DigitChars[m + 1]>>
        /\ next = <<DigitChars[M + 1], ".", DigitChars[m + 2]>>

\* C5: a correction that approve_correction moved to APPROVED is reflected
\* in the underlying record right after the approval: the company attribute
\* named by field_type and the linked DataPoint, if any, equal new_value
\* (and there is such an attribute or DataPoint).
C5_ApprovedIsApplied ==
    (lastOp.op = "approve" /\ lastOp.result = "ok") =>
        LET correction == corrections[lastOp.id] IN
        /\ correction.status = "APPROVED"
        /\ correction.field_type \in CompanyFields \/ correction.company_data_id # 0
        /\ correction.field_type \in CompanyFields =>
               company[correction.company_id][correction.field_type]
                   = correction.new_value
        /\ correction.company_data_id # 0 =>
               datapoints[correction.company_data_id].field_value
                   = correction.new_value

C7_ApproveNonPendingFails ==
    [][\A id \in DOMAIN corrections :
          (lastOp'.op = "approve" /\ lastOp'.id = id
           /\ corrections[id].status # "PENDING")
          => /\ lastOp'.result = "error"
             /\ UNCHANGED <<company, datapoints, corrections>>]_vars

\* approve_correction has just failed on an APPROVED correction with a
\* linked DataPoint.
C7_Witness ==
    /\ lastOp.op = "approve" /\ lastOp.result = "error"
    /\ lastOp.id \in DOMAIN corrections
    /\ corrections[lastOp.id].status = "APPROVED"
    /\ corrections[lastOp.id].company_data_id # 0

\* C8: when the commit of approve_correction fails on a PENDING correction,
\* the approval is rolled back: the correction is still PENDING with
\* approved_by and approved_at unset, and the company and the DataPoints
\* keep their values.
C8_FailedApprovalRollsBack ==
    [][\A id \in DOMAIN corrections :
          (lastOp'.op = "approve" /\ lastOp'.id = id
           /\ corrections[id].status = "PENDING" /\ lastOp'.result = "error")
          => /\ corrections'[id].status = "PENDING"
             /\ corrections'[id].approved_by = None
             /\ corrections'[id].approved_at = FALSE
             /\ UNCHANGED <<company, datapoints, corrections>>]_vars

\* approve_correction has just failed on a correction that is PENDING (its
\* commit failed); the correction would change a company attribute and a
\* linked DataPoint.
C8_Witness ==
    /\ lastOp.op = "approve" /\ lastOp.result = "error"
    /\ lastOp.id \in DOMAIN corrections
    /\ corrections[lastOp.id].status = "PENDING"
    /\ corrections[lastOp.id].company_data_id # 0
    /\ corrections[lastOp.id].field_type \in CompanyFields
    /\ company[corrections[lastOp.id].company_id][corrections[lastOp.id].field_type]
           # corrections[lastOp.id].new_value

\* C9: the status of a correction only changes from PENDING to APPROVED or
\* from PENDING to REJECTED; APPROVED and REJECTED are never left.
C9_StatusOneWay ==
    [][\A i \in DOMAIN corrections :
          corrections'[i].status # corrections[i].status
          => /\ corrections[i].status = "PENDING"
             /\ corrections'[i].status \in {"APPROVED", "REJECTED"}]_vars

\* A rejected change was retried through a brand-new correction, which was
\* approved, and a later approve or reject call on one of the two failed.
C9_Witness ==
    /\ \E i, k \in DOMAIN corrections :
          /\ i < k
          /\ corrections[i].status = "REJECTED"
          /\ corrections[k].status = "APPROVED"
          /\ corrections[k].company_id = corrections[i].company_id
          /\ corrections[k].field_name = corrections[i].field_name
          /\ corrections[k].new_value = corrections[i].new_value
    /\ lastOp.op \in {"approve", "reject"} /\ lastOp.result = "error"

Approves(id) ==
    /\ id \in DOMAIN corrections
    /\ corrections[id].status = "PENDING"
    /\ corrections'[id].status = "APPROVED"

\* C27: the old_value of an APPROVED correction is the value the corrected
\* attribute of the company held immediately before the approval was
\* applied.
C27_OldValueIsValueBeforeApproval ==
    [][\A id \in CorrectionIds :
          Approves(id) =>
              corrections'[id].old_value =
                  CurrentValue(company, corrections[id].company_id,
                               corrections[id].field_type)]_vars

\* C28: the APPROVED corrections of one company and field_name carry
\* pairwise distinct versions, and no correction is the
\* previous_correction_id of two corrections.
C28_VersionsDistinctAndChainLinear ==
    \A i, k \in DOMAIN corrections :
        (/\ i # k
         /\ corrections[i].company_id = corrections[k].company_id
         /\ corrections[i].field_name = corrections[k].field_name) =>
            /\ (corrections[i].status = "APPROVED" /\ corrections[k].status = "APPROVED")
                   => corrections[i].version # corrections[k].version
            /\ corrections[i].previous_correction_id # 0
                   => corrections[i].previous_correction_id
                          # corrections[k].previous_correction_id

\* C29: once a correction of a company attribute has been approved,
\* get_latest_correction returns the correction that was approved last; it
\* never returns a correction that is not APPROVED.
C29_LatestIsLastApproved ==
    [][\A id \in CorrectionIds :
          Approves(id) =>
              LET latest == get_latest_correction(corrections',
                                corrections[id].company_id,
                                corrections[id].field_name)
              IN  /\ latest = id
                  /\ corrections'[latest].status = "APPROVED"]_vars

\* C30: a DataPoint changes only in a step that approves a correction of the
\* company the DataPoint belongs to.
C30_ApprovalStaysInsideCompany ==
    [][\A d \in DOMAIN datapoints :
          datapoints'[d] # datapoints[d] =>
              \E id \in CorrectionIds :
                  /\ Approves(id)
                  /\ corrections[id].company_id = datapoints[d].company_id]_vars

(***************************************************************************)
(* Concurrent approval and rejection (checked under SpecT)                 *)
(***************************************************************************)
\* C26: when approve_correction and reject_correction run concurrently on
\* one PENDING correction, the correction ends APPROVED with its new_value
\* applied to the company, or REJECTED with the company untouched: a
\* REJECTED correction's new_value is never the live value of the attribute
\* (unless an APPROVED correction of the attribute put the same value
\* there).
C26_RejectedNeverApplied ==
    \A id \in DOMAIN corrections :
        (/\ corrections[id].status = "REJECTED"
         /\ corrections[id].field_type \in CompanyFields
         /\ ~\E k \in DOMAIN corrections :
                /\ corrections[k].status = "APPROVED"
                /\ corrections[k].company_id = corrections[id].company_id
                /\ corrections[k].field_type = corrections[id].field_type
                /\ corrections[k].new_value = corrections[id].new_value) =>
            company[corrections[id].company_id][corrections[id].field_type]
                # corrections[id].new_value

====
